---------------------------- MODULE Spec2Model ----------------------------
(***************************************************************************)
(* PBassign.py: assignment of Protein Blocks (PB) from phi/psi dihedrals.  *)
(*                                                                         *)
(* Three parts of the script are modelled, each under its own              *)
(* specification over the same variables:                                  *)
(*   SpecNorm  angle_modulo_360 applied once and twice to an angle         *)
(*   SpecLoad  read_pb_definitions run line by line over a text payload    *)
(*   Spec      PB_assign run residue by residue over an angle map          *)
(*                                                                         *)
(* Angles are whole degrees (the arithmetic of the code is exact on them). *)
(* A Python str is the sequence of its characters, a dict a function, and  *)
(* the dict pb_ref, which PB_assign iterates, the sequence of its items in *)
(* iteration order.  An optional angle is <<>> (None) or <<v>>.            *)
(***************************************************************************)
EXTENDS Integers, Sequences, FiniteSets

VARIABLES
    angle, norm1, norm2, npc,                    \* angle_modulo_360
    pb_angles_string, lineno, pb_angles, lpc,    \* read_pb_definitions
    pb_ref, dihedrals, visited, pb_seq, pc, fasta  \* PB_assign

normVars == <<angle, norm1, norm2, npc>>
loadVars == <<pb_angles_string, lineno, pb_angles, lpc>>
assignVars == <<pb_ref, dihedrals, visited, pb_seq, pc, fasta>>
vars == <<angle, norm1, norm2, npc, pb_angles_string, lineno, pb_angles, lpc,
          pb_ref, dihedrals, visited, pb_seq, pc, fasta>>

(***************************************************************************)
(* Bounds of the model.                                                    *)
(***************************************************************************)
MaxAngle == 800     \* SpecNorm: angles range over -MaxAngle..MaxAngle
MaxLines == 3       \* SpecLoad: lines in a payload
MaxRes == 6         \* Spec: residue indices range over 1..MaxRes

(***************************************************************************)
(* Constants of the program.                                               *)
(***************************************************************************)
HalfTurn == 180     \* the 180.0 of angle_modulo_360
FullTurn == 360     \* the 360.0 of angle_modulo_360
WindowLen == 8      \* the eight angles PB_assign collects

None == <<>>
Some(v) == <<v>>

(***************************************************************************)
(* angle_modulo_360                                                        *)
(***************************************************************************)
angle_modulo_360_signslip(a) ==
    IF a > HalfTurn THEN a - FullTurn
    ELSE IF a < HalfTurn THEN a + FullTurn
    ELSE a

angle_modulo_360_halfstep(a) ==
    IF a > HalfTurn THEN a - HalfTurn
    ELSE IF a < -HalfTurn THEN a + HalfTurn
    ELSE a

angle_modulo_360(a) ==
    IF a > HalfTurn THEN a - FullTurn
    ELSE IF a < -HalfTurn THEN a + FullTurn
    ELSE a

angle_modulo_360_vect_skipped(v) == v

\* numpy.vectorize(angle_modulo_360): the scalar rule on every element
angle_modulo_360_vect(v) == [j \in DOMAIN v |-> angle_modulo_360(v[j])]

IdleNorm == angle = 0 /\ norm1 = None /\ norm2 = None /\ npc = "idle"

InitNorm0 ==
    /\ angle \in -MaxAngle..MaxAngle
    /\ norm1 = None
    /\ norm2 = None
    /\ npc = "call"

Normalize ==
    /\ npc = "call"
    /\ norm1' = Some(angle_modulo_360(angle))
    /\ npc' = "once"
    /\ UNCHANGED <<angle, norm2>>

NormalizeAgain ==
    /\ npc = "once"
    /\ norm2' = Some(angle_modulo_360(norm1[1]))
    /\ npc' = "twice"
    /\ UNCHANGED <<angle, norm1>>

(***************************************************************************)
(* Python str and dict operations used by read_pb_definitions              *)
(***************************************************************************)
Whitespace == {" ", "\t", "\n"}
Digits == {"0", "1", "2", "3", "4", "5", "6", "7", "8", "9"}

DigitValue(c) ==
    CASE c = "0" -> 0 [] c = "1" -> 1 [] c = "2" -> 2 [] c = "3" -> 3
      [] c = "4" -> 4 [] c = "5" -> 5 [] c = "6" -> 6 [] c = "7" -> 7
      [] c = "8" -> 8 [] c = "9" -> 9

\* sub in s: here for a one-character sub
Contains(s, c) == \E i \in 1..Len(s) : s[i] = c

\* s.split(sep) for a one-character sep: the pieces between the separators,
\* empty pieces kept ("".split("\n") is [""])
RECURSIVE SplitOn(_, _)
SplitOn(s, sep) ==
    IF ~Contains(s, sep) THEN <<s>>
    ELSE LET i == CHOOSE k \in 1..Len(s) :
                     s[k] = sep /\ \A j \in 1..(k - 1) : s[j] # sep
         IN  <<SubSeq(s, 1, i - 1)>> \o SplitOn(SubSeq(s, i + 1, Len(s)), sep)

\* s.split(): the maximal runs of non-whitespace characters
RECURSIVE SplitWords(_)
SplitWords(s) ==
    IF \A i \in 1..Len(s) : s[i] \in Whitespace THEN <<>>
    ELSE LET b == CHOOSE k \in 1..Len(s) :
                     s[k] \notin Whitespace /\ \A j \in 1..(k - 1) : s[j] \in Whitespace
             e == CHOOSE k \in b..Len(s) :
                     /\ \A j \in b..k : s[j] \notin Whitespace
                     /\ (k = Len(s) \/ s[k + 1] \in Whitespace)
         IN  <<SubSeq(s, b, e)>> \o SplitWords(SubSeq(s, e + 1, Len(s)))

\* float(tok) succeeds: over the characters of the model (letters, digits,
\* "-", "#") the accepted tokens are an optional sign and at least one digit
IsFloat(tok) ==
    LET body == IF tok # <<>> /\ tok[1] = "-" THEN Tail(tok) ELSE tok
    IN  body # <<>> /\ \A i \in 1..Len(body) : body[i] \in Digits

RECURSIVE DigitsValue(_)
DigitsValue(ds) ==
    IF ds = <<>> THEN 0
    ELSE 10 * DigitsValue(SubSeq(ds, 1, Len(ds) - 1)) + DigitValue(ds[Len(ds)])

\* float(tok), for a token float accepts
Float(tok) == IF tok[1] = "-" THEN 0 - DigitsValue(Tail(tok)) ELSE DigitsValue(tok)

EmptyDict == [k \in {} |-> <<>>]
DictPut(d, k, v) == [x \in DOMAIN d \cup {k} |-> IF x = k THEN v ELSE d[x]]

(***************************************************************************)
(* read_pb_definitions                                                     *)
(***************************************************************************)
Lines == SplitOn(pb_angles_string, "\n")

IsKept_startswith(line) == line # <<>> /\ line[1] # "#"

\* if line and "#" not in line
IsKept(line) == line # <<>> /\ ~Contains(line, "#")

\* [float(items[i]) for i in range(1, len(items))]
ItemAngles(items) == [i \in 1..(Len(items) - 1) |-> Float(items[i + 1])]

ItemsParse(items) == \A i \in 2..Len(items) : IsFloat(items[i])

IdleLoad ==
    pb_angles_string = <<>> /\ lineno = 0 /\ pb_angles = EmptyDict /\ lpc = "idle"

\* the lines a payload of the model is made of
LineSet ==
    { <<>>,
      <<"a", " ", "1", " ", "2">>,
      <<"b", " ", "1", " ", "2">>,
      <<"b", " ", "3">>,
      <<"a", " ", "1", "0", " ", "-", "2">>,
      <<"#", "b", " ", "2", " ", "2">>,
      <<"b", " ", "2", " ", "#">>,
      <<" ">>,
      <<"b", " ", "x">>,
      <<" ", "b", " ", " ", "1", " ", "2", " ">> }

RECURSIVE JoinLines(_)
JoinLines(ls) ==
    IF Len(ls) = 1 THEN ls[1] ELSE ls[1] \o <<"\n">> \o JoinLines(Tail(ls))

Payloads ==
    { JoinLines(ls) : ls \in UNION { [1..n -> LineSet] : n \in 1..MaxLines } }

InitLoad0 ==
    /\ pb_angles_string \in Payloads
    /\ lineno = 0
    /\ pb_angles = EmptyDict
    /\ lpc = "loop"

\* a skipped line: the loop goes to the next one
LoadSkip ==
    /\ lpc = "loop"
    /\ lineno < Len(Lines)
    /\ ~IsKept(Lines[lineno + 1])
    /\ lineno' = lineno + 1
    /\ UNCHANGED <<pb_angles_string, pb_angles, lpc>>

\* pb_angles[items[0]] = numpy.array([float(items[i]) ...])
LoadStore ==
    /\ lpc = "loop"
    /\ lineno < Len(Lines)
    /\ IsKept(Lines[lineno + 1])
    /\ LET items == SplitWords(Lines[lineno + 1])
       IN  /\ items # <<>>
           /\ ItemsParse(items)
           /\ pb_angles' = DictPut(pb_angles, items[1], ItemAngles(items))
    /\ lineno' = lineno + 1
    /\ UNCHANGED <<pb_angles_string, lpc>>

\* float() of a token that is no number raises ValueError; items[0] of a
\* line of whitespace raises IndexError; neither is caught
LoadLineError ==
    /\ lpc = "loop"
    /\ lineno < Len(Lines)
    /\ IsKept(Lines[lineno + 1])
    /\ LET items == SplitWords(Lines[lineno + 1])
       IN  /\ items = <<>> \/ ~ItemsParse(items)
           /\ lpc' = IF items = <<>> THEN "IndexError" ELSE "ValueError"
    /\ UNCHANGED <<pb_angles_string, lineno, pb_angles>>

\* print(... % (len(pb_angles), len(pb_angles["a"]))); return pb_angles
LoadReturn ==
    /\ lpc = "loop"
    /\ lineno = Len(Lines)
    /\ <<"a">> \in DOMAIN pb_angles
    /\ lpc' = "returned"
    /\ UNCHANGED <<pb_angles_string, lineno, pb_angles>>

\* pb_angles["a"] of a dict without the key "a" raises KeyError
LoadKeyError ==
    /\ lpc = "loop"
    /\ lineno = Len(Lines)
    /\ <<"a">> \notin DOMAIN pb_angles
    /\ lpc' = "KeyError"
    /\ UNCHANGED <<pb_angles_string, lineno, pb_angles>>

(***************************************************************************)
(* PB_assign: the window of a residue                                      *)
(***************************************************************************)
RECURSIVE SortedFrom(_)
SortedFrom(S) ==
    IF S = {} THEN <<>>
    ELSE LET m == CHOOSE x \in S : \A y \in S : x <= y
         IN  <<m>> \o SortedFrom(S \ {m})

RECURSIVE SortedKeys_descending(_)
SortedKeys_descending(d) ==
    IF DOMAIN d = {} THEN <<>>
    ELSE LET m == CHOOSE x \in DOMAIN d : \A y \in DOMAIN d : x >= y
         IN  <<m>> \o SortedKeys_descending([r \in DOMAIN d \ {m} |-> d[r]])

\* sorted(dihedrals): the keys of the dict in ascending order
SortedKeys(d) == SortedFrom(DOMAIN d)

WindowLookups_offbyone ==
    << <<-2, "psi">>, <<-1, "phi">>, <<-1, "psi">>, <<0, "phi">>,
       <<0, "psi">>, <<1, "phi">>, <<1, "psi">>, <<1, "phi">> >>

\* the eight dihedrals[res+k][...] of the try block, in the order appended
WindowLookups ==
    << <<-2, "psi">>, <<-1, "phi">>, <<-1, "psi">>, <<0, "phi">>,
       <<0, "psi">>, <<1, "phi">>, <<1, "psi">>, <<2, "phi">> >>

\* no dihedrals[res+k] of the try block raises KeyError
HasKeys(d, res) ==
    \A k \in 1..Len(WindowLookups) : res + WindowLookups[k][1] \in DOMAIN d

\* angles, once the eight appends are done
Window(d, res) ==
    [k \in 1..Len(WindowLookups) |->
        d[res + WindowLookups[k][1]][WindowLookups[k][2]]]

\* None in angles
HasNone(angles) == \E k \in 1..Len(angles) : angles[k] = None

\* numpy.array(angles), of a list without None
AngleArray(angles) == [k \in 1..Len(angles) |-> angles[k][1]]

Caught_IndexError(exc) == exc = "IndexError"

\* the bare except: of the try block catches every exception
Caught(exc) == TRUE

(***************************************************************************)
(* PB_assign: comparison to the reference angles                           *)
(***************************************************************************)
\* pb_ref[block] - angles, element by element
Diff(ref, angles) == [j \in 1..Len(ref) |-> ref[j] - angles[j]]

\* numpy.sum(diff2**2)
RECURSIVE SumSquares(_)
SumSquares(v) ==
    IF Len(v) = 0 THEN 0
    ELSE v[Len(v)] * v[Len(v)] + SumSquares(SubSeq(v, 1, Len(v) - 1))

Rmsda(ref, angles) == SumSquares(angle_modulo_360_vect(Diff(ref, angles)))

RmsdaStore_keepfirst(lst, rmsda, block) ==
    IF rmsda \in DOMAIN lst THEN lst ELSE DictPut(lst, rmsda, block)

\* rmsda_lst[rmsda] = block
RmsdaStore(lst, rmsda, block) == DictPut(lst, rmsda, block)

\* rmsda_lst after the first n blocks of pb_ref were visited
RECURSIVE RmsdaLst(_, _, _)
RmsdaLst(ref, n, angles) ==
    IF n = 0 THEN EmptyDict
    ELSE RmsdaStore(RmsdaLst(ref, n - 1, angles),
                    Rmsda(ref[n].angles, angles), ref[n].label)

MinScore_max(lst) == CHOOSE k \in DOMAIN lst : \A j \in DOMAIN lst : k >= j

\* min(rmsda_lst): the smallest key
MinScore(lst) == CHOOSE k \in DOMAIN lst : \A j \in DOMAIN lst : k <= j

\* rmsda_lst[min(rmsda_lst)]
BestBlock(ref, angles) ==
    LET rmsda_lst == RmsdaLst(ref, Len(ref), angles)
    IN  rmsda_lst[MinScore(rmsda_lst)]

(***************************************************************************)
(* PB_assign: inputs                                                       *)
(***************************************************************************)
Residues == 1..MaxRes
MapAngles == {0, 90, 180}
RefAngles == {-180, 0, 90, 180}
Labels == {<<"a">>, <<"b">>}

\* one phi or psi of one residue unresolved, or none
Defects == {<<0, "none">>} \cup (Residues \X {"phi", "psi"})

\* the residues of present, with phi = p and psi = s but for the defect
AngleMap(present, p, s, defect) ==
    [r \in present |->
        [phi |-> IF defect = <<r, "phi">> THEN None ELSE Some(p),
         psi |-> IF defect = <<r, "psi">> THEN None ELSE Some(s)]]

\* a prototype: x at the places of psi in a window, y at those of phi
Prototype(x, y) == [j \in 1..WindowLen |-> IF j % 2 = 1 THEN x ELSE y]

RefVectors == { Prototype(x, y) : x \in RefAngles, y \in RefAngles }

Block(l, v) == [label |-> l, angles |-> v]

\* the non-empty libraries over Labels, of distinct prototypes, in every
\* iteration order
Libraries ==
    { <<Block(l, v)>> : l \in Labels, v \in RefVectors }
    \cup { <<Block(l[1], v[1]), Block(l[2], v[2])>> :
              l \in {m \in Labels \X Labels : m[1] # m[2]},
              v \in {u \in RefVectors \X RefVectors : u[1] # u[2]} }

\* sparse maps (any residues, any defect) against two blocks
SparseInputs ==
    { <<lib, AngleMap(present, v, v, defect)>> :
        lib \in { <<Block(<<"a">>, Prototype(0, 0)), Block(<<"b">>, Prototype(90, 90))>>,
                  <<Block(<<"b">>, Prototype(90, 90)), Block(<<"a">>, Prototype(0, 0))>> },
        present \in SUBSET Residues, v \in MapAngles, defect \in Defects }

\* full maps against every library
DenseInputs ==
    { <<lib, AngleMap(Residues, ps[1], ps[2], <<0, "none">>)>> :
        lib \in Libraries, ps \in MapAngles \X MapAngles }

IdleAssign ==
    /\ pb_ref = <<>> /\ dihedrals = EmptyDict /\ visited = 0
    /\ pb_seq = <<>> /\ pc = "idle" /\ fasta = <<>>

InitAssign0 ==
    /\ \E in \in SparseInputs \cup DenseInputs :
          pb_ref = in[1] /\ dihedrals = in[2]
    /\ visited = 0
    /\ pb_seq = <<>>
    /\ pc = "loop"
    /\ fasta = <<>>

(***************************************************************************)
(* PB_assign: one action per way through the body of the loop              *)
(***************************************************************************)
\* a dihedrals[res+k] raised KeyError: pb_seq += "Z"; continue
AssignMissing ==
    /\ pc = "loop"
    /\ visited < Len(SortedKeys(dihedrals))
    /\ LET res == SortedKeys(dihedrals)[visited + 1]
       IN  /\ ~HasKeys(dihedrals, res)
           /\ IF Caught("KeyError")
              THEN /\ pb_seq' = pb_seq \o <<"Z">>
                   /\ visited' = visited + 1
                   /\ pc' = pc
              ELSE /\ pc' = "KeyError"
                   /\ UNCHANGED <<pb_seq, visited>>
    /\ UNCHANGED <<pb_ref, dihedrals, fasta>>

\* if None in angles: pb_seq += "Z"; continue
AssignBad ==
    /\ pc = "loop"
    /\ visited < Len(SortedKeys(dihedrals))
    /\ LET res == SortedKeys(dihedrals)[visited + 1]
       IN  /\ HasKeys(dihedrals, res)
           /\ HasNone(Window(dihedrals, res))
    /\ pb_seq' = pb_seq \o <<"Z">>
    /\ visited' = visited + 1
    /\ UNCHANGED <<pb_ref, dihedrals, pc, fasta>>

\* pb_seq += rmsda_lst[min(rmsda_lst)]
AssignBlock ==
    /\ pc = "loop"
    /\ visited < Len(SortedKeys(dihedrals))
    /\ LET res == SortedKeys(dihedrals)[visited + 1]
       IN  /\ HasKeys(dihedrals, res)
           /\ ~HasNone(Window(dihedrals, res))
           /\ pb_seq' = pb_seq \o BestBlock(pb_ref, AngleArray(Window(dihedrals, res)))
    /\ visited' = visited + 1
    /\ UNCHANGED <<pb_ref, dihedrals, pc, fasta>>

\* the loop is over: PB.write_fasta(fasta_name, pb_seq, comment)
WriteFasta ==
    /\ pc = "loop"
    /\ visited = Len(SortedKeys(dihedrals))
    /\ fasta' = Append(fasta, pb_seq)
    /\ pc' = "done"
    /\ UNCHANGED <<pb_ref, dihedrals, visited, pb_seq>>

(***************************************************************************)
(* Specifications                                                          *)
(***************************************************************************)
InitNorm == InitNorm0 /\ IdleLoad /\ IdleAssign
NextNorm ==
    \/ Normalize /\ UNCHANGED <<loadVars, assignVars>>
    \/ NormalizeAgain /\ UNCHANGED <<loadVars, assignVars>>
SpecNorm == InitNorm /\ [][NextNorm]_vars

InitLoad == InitLoad0 /\ IdleNorm /\ IdleAssign
NextLoad ==
    \/ LoadSkip /\ UNCHANGED <<normVars, assignVars>>
    \/ LoadStore /\ UNCHANGED <<normVars, assignVars>>
    \/ LoadLineError /\ UNCHANGED <<normVars, assignVars>>
    \/ LoadReturn /\ UNCHANGED <<normVars, assignVars>>
    \/ LoadKeyError /\ UNCHANGED <<normVars, assignVars>>
SpecLoad == InitLoad /\ [][NextLoad]_vars

Init == InitAssign0 /\ IdleNorm /\ IdleLoad
Next ==
    \/ AssignMissing /\ UNCHANGED <<normVars, loadVars>>
    \/ AssignBad /\ UNCHANGED <<normVars, loadVars>>
    \/ AssignBlock /\ UNCHANGED <<normVars, loadVars>>
    \/ WriteFasta /\ UNCHANGED <<normVars, loadVars>>
Spec == Init /\ [][Next]_vars

(***************************************************************************)
(* Vocabulary of the properties, stated apart from the operators above     *)
(***************************************************************************)
\* the k-th smallest residue index of the map
KthResidue(k) ==
    CHOOSE i \in DOMAIN dihedrals :
        Cardinality({j \in DOMAIN dihedrals : j < i}) = k - 1

NeighboursPresent(i) == {i - 2, i - 1, i + 1, i + 2} \subseteq DOMAIN dihedrals

\* psi(i-2), phi(i-1), psi(i-1), phi(i), psi(i), phi(i+1), psi(i+1), phi(i+2)
RequiredValues(i) ==
    << dihedrals[i - 2].psi, dihedrals[i - 1].phi, dihedrals[i - 1].psi,
       dihedrals[i].phi, dihedrals[i].psi, dihedrals[i + 1].phi,
       dihedrals[i + 1].psi, dihedrals[i + 2].phi >>

WindowAssembled(i) ==
    /\ NeighboursPresent(i)
    /\ \A j \in 1..WindowLen : RequiredValues(i)[j] # None

WindowOf(i) == [j \in 1..WindowLen |-> RequiredValues(i)[j][1]]

\* sum over the components of the squared normalized difference
RECURSIVE CircularScoreUpTo(_, _, _)
CircularScoreUpTo(ref, w, n) ==
    IF n = 0 THEN 0
    ELSE LET d == angle_modulo_360(ref[n] - w[n])
         IN  d * d + CircularScoreUpTo(ref, w, n - 1)

CircularScore(ref, w) == CircularScoreUpTo(ref, w, WindowLen)

\* the blocks (by place in the iteration order) of minimal score for w
MinimalBlocks(w) ==
    { b \in 1..Len(pb_ref) :
        \A c \in 1..Len(pb_ref) :
            CircularScore(pb_ref[b].angles, w) <= CircularScore(pb_ref[c].angles, w) }

LastOf(S) == CHOOSE b \in S : \A c \in S : c <= b

\* equal up to whole turns in every component
Congruent360(u, v) == \A j \in 1..WindowLen : (u[j] - v[j]) % FullTurn = 0

\* the label sequence PB_assign computes for the map with library ref
LabelsWith(ref) ==
    [k \in 1..Cardinality(DOMAIN dihedrals) |->
        IF WindowAssembled(KthResidue(k))
        THEN BestBlock(ref, WindowOf(KthResidue(k)))[1]
        ELSE "Z"]

Reversed(q) == [k \in 1..Len(q) |-> q[Len(q) + 1 - k]]

\* the positions of pb_seq whose residue has a fully assembled window
Classified == { k \in 1..Len(pb_seq) : WindowAssembled(KthResidue(k)) }

(***************************************************************************)
(* C1  Sentinel coverage: the label at the position of residue i is "Z"    *)
(* exactly when one of i-2, i-1, i+1, i+2 is absent from the map or one of *)
(* the eight required values is None.                                      *)
(***************************************************************************)
C1_SentinelCoverage ==
    \A k \in 1..Len(pb_seq) :
        (pb_seq[k] = "Z") <=> ~WindowAssembled(KthResidue(k))

\* one run shows a block label, a "Z" for a None value between present
\* neighbours, and a "Z" for an absent neighbour
C1_Witness ==
    /\ pc = "done"
    /\ \E k \in 1..Len(pb_seq) : pb_seq[k] # "Z"
    /\ \E k \in 1..Len(pb_seq) :
          pb_seq[k] = "Z" /\ NeighboursPresent(KthResidue(k))
    /\ \E k \in 1..Len(pb_seq) :
          pb_seq[k] = "Z" /\ ~NeighboursPresent(KthResidue(k))

(***************************************************************************)
(* C2  Completeness and order: at every step pb_seq has one label per      *)
(* residue visited, the k-th being the label of the k-th smallest residue  *)
(* index; once PB_assign is done there is one label per key of the map and *)
(* that sequence is what is written.                                       *)
(***************************************************************************)
C2_CompletenessOrder ==
    /\ Len(pb_seq) = visited
    /\ visited <= Cardinality(DOMAIN dihedrals)
    /\ \A k \in 1..Len(pb_seq) : pb_seq[k] = LabelsWith(pb_ref)[k]
    /\ pc = "done" =>
          /\ Len(pb_seq) = Cardinality(DOMAIN dihedrals)
          /\ fasta = <<pb_seq>>

\* a finished run whose labels are not all "Z" and do not read the same
\* backwards
C2_Witness ==
    /\ pc = "done"
    /\ \E k \in 1..Len(pb_seq) : pb_seq[k] # "Z"
    /\ pb_seq # Reversed(pb_seq)

(***************************************************************************)
(* C3  Minimum-score selection: the label emitted for a residue with a     *)
(* fully assembled window is that of a block whose score is at most the    *)
(* score of every block of the library.                                    *)
(***************************************************************************)
C3_MinimumScore ==
    \A k \in Classified :
        \E b \in MinimalBlocks(WindowOf(KthResidue(k))) :
            pb_ref[b].label = <<pb_seq[k]>>

\* a residue was classified against two blocks of different score, and the
\* better one is not the one visited last
C3_Witness ==
    /\ Len(pb_ref) = 2
    /\ \E k \in Classified : MinimalBlocks(WindowOf(KthResidue(k))) = {1}

(***************************************************************************)
(* C4 as stated  Best-match: a window identical to the prototype of a      *)
(* block b is given b's label, with score 0, whatever the other blocks.    *)
(***************************************************************************)
C4_Original ==
    \A k \in Classified : \A b \in 1..Len(pb_ref) :
        pb_ref[b].angles = WindowOf(KthResidue(k)) =>
            /\ pb_ref[b].label = <<pb_seq[k]>>
            /\ CircularScore(pb_ref[b].angles, WindowOf(KthResidue(k))) = 0

(***************************************************************************)
(* C4 amended  Best-match: a window identical to the prototype of a block  *)
(* b is given, with score 0, the label of the block visited last among     *)
(* those whose prototype equals b's up to whole turns; that is b's label   *)
(* when no block visited after b is such a twin.                           *)
(***************************************************************************)
C4_BestMatch ==
    \A k \in Classified : \A b \in 1..Len(pb_ref) :
        LET w == WindowOf(KthResidue(k))
            twins == { c \in 1..Len(pb_ref) : Congruent360(pb_ref[c].angles, w) }
        IN  pb_ref[b].angles = w =>
                /\ pb_ref[LastOf(twins)].label = <<pb_seq[k]>>
                /\ CircularScore(pb_ref[LastOf(twins)].angles, w) = 0
                /\ (\A c \in twins : c <= b) => pb_ref[b].label = <<pb_seq[k]>>

\* a window identical to the first block, whose twin (180 for -180) is
\* visited after it and gives the label
C4_Witness ==
    /\ Len(pb_ref) = 2
    /\ \E k \in Classified :
          /\ pb_ref[1].angles = WindowOf(KthResidue(k))
          /\ Congruent360(pb_ref[2].angles, pb_ref[1].angles)
          /\ pb_ref[2].label = <<pb_seq[k]>>

(***************************************************************************)
(* C8  Failure absorption: no exception leaves PB_assign; it ends only     *)
(* when every residue is consumed, a residue whose window cannot be        *)
(* assembled adds "Z", and the empty map gives the empty sequence.         *)
(***************************************************************************)
C8_FailureAbsorption ==
    /\ pc \in {"loop", "done"}
    /\ pc = "done" => visited = Cardinality(DOMAIN dihedrals)
    /\ \A k \in 1..Len(pb_seq) :
          ~WindowAssembled(KthResidue(k)) => pb_seq[k] = "Z"
    /\ (pc = "done" /\ DOMAIN dihedrals = {}) => (pb_seq = <<>> /\ fasta = << <<>> >>)

\* a finished run in which a KeyError was absorbed for a residue inside a
\* gap of a sparse map and a later residue was still labelled
C8_Witness ==
    /\ pc = "done"
    /\ \E k \in 1..Len(pb_seq) :
          /\ KthResidue(k) + 1 \notin DOMAIN dihedrals
          /\ pb_seq[k] = "Z"
          /\ k < Len(pb_seq)

(***************************************************************************)
(* C10  Tie resolution: when several blocks have the minimal score for a   *)
(* window, the label emitted is that of the one visited last.              *)
(***************************************************************************)
C10_TieLastVisited ==
    \A k \in Classified :
        LET best == MinimalBlocks(WindowOf(KthResidue(k)))
        IN  Cardinality(best) >= 2 => pb_ref[LastOf(best)].label = <<pb_seq[k]>>

\* a finished run with a tie, for which the same library iterated in the
\* other order gives another label sequence
C10_Witness ==
    /\ pc = "done"
    /\ \E k \in Classified : Cardinality(MinimalBlocks(WindowOf(KthResidue(k)))) >= 2
    /\ LabelsWith(Reversed(pb_ref)) # LabelsWith(pb_ref)
    /\ pb_seq = LabelsWith(pb_ref)

RetainedLines ==
    { n \in 1..Len(Lines) :
        Len(Lines[n]) > 0 /\ \A i \in 1..Len(Lines[n]) : Lines[n][i] # "#" }

\* a label followed by numbers only
WellFormedLine(n) ==
    LET items == SplitWords(Lines[n])
    IN  Len(items) >= 1 /\ \A i \in 2..Len(items) : IsFloat(items[i])

LabelOf(n) == SplitWords(Lines[n])[1]
AnglesOf(n) == ItemAngles(SplitWords(Lines[n]))

(***************************************************************************)
(* C7  Library arity: a text in which two labels define different numbers  *)
(* of angles ends in a failure, so that every library returned has all     *)
(* its vectors of one length.                                              *)
(***************************************************************************)
C7_ArityInvariant ==
    lpc = "returned" =>
        /\ \A m \in RetainedLines, n \in RetainedLines :
              LabelOf(m) # LabelOf(n) => Len(AnglesOf(m)) = Len(AnglesOf(n))
        /\ \A k \in DOMAIN pb_angles, l \in DOMAIN pb_angles :
              Len(pb_angles[k]) = Len(pb_angles[l])

(***************************************************************************)
(* C9 as stated  Loader parsing: for every payload the loader returns, and *)
(* the mapping holds for each line that is neither empty nor a comment its *)
(* first token mapped to the numbers of its other tokens, whatever the     *)
(* labels.                                                                 *)
(***************************************************************************)
C9_Original ==
    lpc # "loop" =>
        /\ lpc = "returned"
        /\ \A n \in RetainedLines :
              /\ LabelOf(n) \in DOMAIN pb_angles
              /\ pb_angles[LabelOf(n)] = AnglesOf(n)

(***************************************************************************)
(* C9 amended  Loader parsing: for a payload whose retained lines (not     *)
(* empty, no "#") are each a label followed by numbers only and include    *)
(* the label "a", the loader returns a mapping of exactly the labels of    *)
(* the retained lines, each to the numbers of the last retained line with  *)
(* that label; for any other payload it raises and returns nothing.        *)
(***************************************************************************)
C9_LoaderParsing ==
    lpc # "loop" =>
        IF /\ \A n \in RetainedLines : WellFormedLine(n)
           /\ \E n \in RetainedLines : LabelOf(n) = <<"a">>
        THEN /\ lpc = "returned"
             /\ DOMAIN pb_angles = { LabelOf(n) : n \in RetainedLines }
             /\ \A n \in RetainedLines :
                   (\A m \in RetainedLines : LabelOf(m) = LabelOf(n) => m <= n)
                       => pb_angles[LabelOf(n)] = AnglesOf(n)
        ELSE lpc \in {"KeyError", "IndexError", "ValueError"}

\* a library of two labels was returned from a payload with a skipped line
C9_Witness ==
    /\ lpc = "returned"
    /\ Cardinality(DOMAIN pb_angles) = 2
    /\ Cardinality(RetainedLines) < Len(Lines)
    /\ \E n \in 1..Len(Lines) : Contains(Lines[n], "#")

=============================================================================
